---------------------------- MODULE Spec2Model ----------------------------
(***************************************************************************)
(* A model of db_setup.py, the SkyMentor database provisioning script.     *)
(*                                                                         *)
(* The program is a single-threaded sequence of SQL statements sent over   *)
(* one auto-commit connection.  The model has one action per method of     *)
(* DatabaseSetup; a method that sends several statements is entered once    *)
(* and then takes one step per statement (stmt is the index of the next    *)
(* one), because every statement is its own commit and a failure leaves    *)
(* the effects of the statements before it.                                *)
(*                                                                         *)
(* The database is the environment.  Its state is the set of enumerated    *)
(* types, tables, indexes and foreign keys that exist and the rows of each *)
(* table; every statement is answered the way PostgreSQL answers it.       *)
(***************************************************************************)
EXTENDS Integers, Sequences, FiniteSets, TLC

(***************************************************************************)
(* Bounds of the model.                                                    *)
(***************************************************************************)
\* Number of times the script is started on the same database.
MaxRuns == 2
\* Number of stage methods a direct caller invokes between connect and
\* disconnect.
MaxCalls == 2

(***************************************************************************)
(* Small helpers.                                                          *)
(***************************************************************************)
Range(s) == {s[i] : i \in DOMAIN s}

RECURSIVE FilterSeq(_, _)
FilterSeq(s, keep) ==
    IF s = <<>> THEN <<>>
    ELSE IF Head(s) \in keep THEN <<Head(s)>> \o FilterSeq(Tail(s), keep)
         ELSE FilterSeq(Tail(s), keep)

(***************************************************************************)
(* The fixed data of the script.                                           *)
(***************************************************************************)
required_vars == <<"PGDATABASE", "PGUSER", "PGPASSWORD">>

\* Variant of the list below: the tables in the order of their creation,
\* referenced tables first.
DropTablesParentsFirst ==
    << "users", "mentors", "mentees", "availability", "session_blocks",
       "preferences", "attendance_requests", "assignments",
       "progression_steps", "step_completions", "badges", "awards",
       "jump_logs", "audit_events" >>

\* drop_existing_schema: the tables in the order they are dropped.
DropTables ==
    << "audit_events", "jump_logs", "awards", "badges",
       "step_completions", "progression_steps", "assignments",
       "attendance_requests", "preferences", "session_blocks",
       "availability", "mentees", "mentors", "users" >>

\* drop_existing_schema: the enumerated types in the order they are dropped.
DropEnums == << "role", "status", "comfort_level", "category" >>

\* create_enums: the types in the order the dict yields them.
enums == << "role", "status", "comfort_level", "category" >>

EnumValues ==
    [ role          |-> {"mentor", "mentee", "admin"},
      status        |-> {"pending", "confirmed", "declined", "cancelled"},
      comfort_level |-> {"low", "medium", "high"},
      category      |-> {"2way", "3way", "4way", "canopy", "safety"} ]

\* create_tables: one entry per CREATE TABLE statement, in the order of the
\* code.  cols: the column names an insert of the script or the parser cares
\* about; enumcols: <<column, enumerated type>>; fks: <<column, table>> of
\* each REFERENCES clause (all to the parent's id); uniq: PRIMARY KEY and
\* UNIQUE columns.
TableDefs ==
    << [name |-> "users",
        cols |-> {"id", "role", "name", "email", "password_hash"},
        enumcols |-> {<<"role", "role">>}, fks |-> {},
        uniq |-> {"id", "email"}],
       [name |-> "mentors", cols |-> {"id"},
        enumcols |-> {}, fks |-> {<<"id", "users">>}, uniq |-> {"id"}],
       [name |-> "mentees", cols |-> {"id", "comfort_level"},
        enumcols |-> {<<"comfort_level", "comfort_level">>},
        fks |-> {<<"id", "users">>}, uniq |-> {"id"}],
       [name |-> "availability", cols |-> {"id", "user_id", "role"},
        enumcols |-> {<<"role", "role">>},
        fks |-> {<<"user_id", "users">>}, uniq |-> {"id"}],
       [name |-> "session_blocks", cols |-> {"id", "mentor_id", "date"},
        enumcols |-> {}, fks |-> {<<"mentor_id", "mentors">>},
        uniq |-> {"id"}],
       [name |-> "attendance_requests",
        cols |-> {"id", "mentee_id", "session_block_id", "status"},
        enumcols |-> {<<"status", "status">>},
        fks |-> {<<"mentee_id", "mentees">>,
                 <<"session_block_id", "session_blocks">>},
        uniq |-> {"id"}],
       [name |-> "preferences", cols |-> {"id", "mentee_id"},
        enumcols |-> {}, fks |-> {<<"mentee_id", "mentees">>},
        uniq |-> {"id"}],
       [name |-> "assignments",
        cols |-> {"id", "session_block_id", "mentor_id", "mentee_id", "status"},
        enumcols |-> {<<"status", "status">>},
        fks |-> {<<"session_block_id", "session_blocks">>,
                 <<"mentor_id", "mentors">>, <<"mentee_id", "mentees">>},
        uniq |-> {"id"}],
       [name |-> "progression_steps",
        cols |-> {"id", "code", "category", "references"},
        enumcols |-> {<<"category", "category">>}, fks |-> {},
        uniq |-> {"id", "code"}],
       [name |-> "step_completions",
        cols |-> {"id", "mentee_id", "step_id", "mentor_id"},
        enumcols |-> {},
        fks |-> {<<"mentee_id", "mentees">>,
                 <<"step_id", "progression_steps">>,
                 <<"mentor_id", "mentors">>},
        uniq |-> {"id"}],
       [name |-> "badges", cols |-> {"id", "code"},
        enumcols |-> {}, fks |-> {}, uniq |-> {"id", "code"}],
       [name |-> "awards", cols |-> {"id", "mentee_id", "badge_id"},
        enumcols |-> {},
        fks |-> {<<"mentee_id", "mentees">>, <<"badge_id", "badges">>},
        uniq |-> {"id"}],
       [name |-> "jump_logs", cols |-> {"id", "mentee_id", "date", "mentor_id"},
        enumcols |-> {},
        fks |-> {<<"mentee_id", "mentees">>, <<"mentor_id", "mentors">>},
        uniq |-> {"id"}],
       [name |-> "audit_events", cols |-> {"id", "actor_id", "type", "at"},
        enumcols |-> {}, fks |-> {<<"actor_id", "users">>},
        uniq |-> {"id"}] >>

Tables == {TableDefs[i].name : i \in DOMAIN TableDefs}
Enums  == Range(enums)

TableDef(t) == CHOOSE d \in Range(TableDefs) : d.name = t

\* create_indexes: name and owning table of each CREATE INDEX, in order.
indexes ==
    << [name |-> "idx_users_email", on |-> "users"],
       [name |-> "idx_users_role", on |-> "users"],
       [name |-> "idx_availability_user_id", on |-> "availability"],
       [name |-> "idx_availability_day_role", on |-> "availability"],
       [name |-> "idx_session_blocks_mentor_date", on |-> "session_blocks"],
       [name |-> "idx_attendance_requests_session", on |-> "attendance_requests"],
       [name |-> "idx_assignments_session", on |-> "assignments"],
       [name |-> "idx_assignments_mentor", on |-> "assignments"],
       [name |-> "idx_assignments_mentee", on |-> "assignments"],
       [name |-> "idx_step_completions_mentee", on |-> "step_completions"],
       [name |-> "idx_step_completions_step", on |-> "step_completions"],
       [name |-> "idx_progression_steps_category", on |-> "progression_steps"],
       [name |-> "idx_awards_mentee", on |-> "awards"],
       [name |-> "idx_jump_logs_mentee", on |-> "jump_logs"],
       [name |-> "idx_audit_events_actor", on |-> "audit_events"],
       [name |-> "idx_audit_events_type_at", on |-> "audit_events"] >>

\* seed_users: role and email of each account, in order.
users_data ==
    << [role |-> "mentor", email |-> "mentor@test.com", password |-> "password123"],
       [role |-> "mentee", email |-> "mentee@test.com", password |-> "password123"],
       [role |-> "admin",  email |-> "admin@test.com",  password |-> "password123"] >>

\* seed_progression_steps: code and category of each step, in order.
progression_data ==
    << [code |-> "2W-01", category |-> "2way"],
       [code |-> "2W-02", category |-> "2way"],
       [code |-> "3W-01", category |-> "3way"],
       [code |-> "3W-02", category |-> "3way"],
       [code |-> "3W-03", category |-> "3way"],
       [code |-> "3W-04", category |-> "3way"],
       [code |-> "3W-05", category |-> "3way"],
       [code |-> "3W-06", category |-> "3way"],
       [code |-> "4W-01", category |-> "4way"],
       [code |-> "4W-02", category |-> "4way"],
       [code |-> "4W-03", category |-> "4way"],
       [code |-> "4W-04", category |-> "4way"],
       [code |-> "4W-05", category |-> "4way"],
       [code |-> "4W-06", category |-> "4way"],
       [code |-> "4W-07", category |-> "4way"],
       [code |-> "4W-08", category |-> "4way"],
       [code |-> "4W-09", category |-> "4way"],
       [code |-> "4W-10", category |-> "4way"],
       [code |-> "CAN-01", category |-> "canopy"],
       [code |-> "CAN-02", category |-> "canopy"],
       [code |-> "CAN-03", category |-> "canopy"],
       [code |-> "SAF-01", category |-> "safety"],
       [code |-> "SAF-02", category |-> "safety"],
       [code |-> "SAF-03", category |-> "safety"] >>

\* seed_badges: the code of each badge, in order.
badges_data ==
    << "FIRST_2WAY", "FIRST_3WAY", "FIRST_4WAY", "FORMATION_MASTER",
       "CANOPY_PILOT", "SAFETY_CONSCIOUS", "A_LICENSE_READY",
       "QUICK_LEARNER", "DEDICATED_STUDENT", "MENTOR_FAVORITE" >>

\* verify_setup: the tables it counts, in order.
verify_tables ==
    << "users", "mentors", "mentees", "progression_steps",
       "badges", "availability", "session_blocks" >>

(***************************************************************************)
(* PostgreSQL, as far as the statements of the script exercise it.  A      *)
(* database is a record                                                    *)
(*   types   the enumerated types that exist                               *)
(*   tables  the tables that exist                                         *)
(*   indexes the names of the indexes that exist                           *)
(*   fks     the foreign keys that exist, <<child, column, parent>>        *)
(*   rows    for every table name the sequence of its rows                 *)
(* and every statement yields [err, db]: the exception psycopg2 raises     *)
(* ("none" when the statement succeeds) and the database afterwards.  The  *)
(* connection is in auto-commit mode (connect), so a statement that        *)
(* succeeds is durable and one that fails changes nothing.                 *)
(***************************************************************************)
EmptyDB ==
    [ types |-> {}, tables |-> {}, indexes |-> {}, fks |-> {},
      rows |-> [t \in Tables |-> <<>>] ]

Ok(d)     == [err |-> "none", db |-> d]
Err(e, d) == [err |-> e, db |-> d]

\* Key words PostgreSQL reserves: none of them can be a column name unless
\* it is quoted.
ReservedWords ==
    {"references", "user", "table", "select", "order", "group", "primary",
     "foreign", "check", "default", "unique", "constraint"}

IndexTable(ix) == (CHOOSE i \in Range(indexes) : i.name = ix).on

RefTables(def) == {fk[2] : fk \in def.fks}
TypesOf(def)   == {ec[2] : ec \in def.enumcols}

\* Variant: DROP TABLE t CASCADE, without IF EXISTS.
DropTableCascade(d, t) ==
    IF t \notin d.tables
      THEN Err("UndefinedTable", d)
      ELSE Ok([d EXCEPT !.tables  = @ \ {t},
                        !.indexes = {ix \in @ : IndexTable(ix) # t},
                        !.fks     = {fk \in @ : fk[1] # t /\ fk[3] # t},
                        !.rows[t] = <<>>])

\* DROP TABLE IF EXISTS t CASCADE: never an error; takes the table's rows
\* and indexes with it, and the foreign keys from it and (CASCADE) to it.
DropTableIfExistsCascade(d, t) ==
    Ok([d EXCEPT !.tables  = @ \ {t},
                 !.indexes = {ix \in @ : IndexTable(ix) # t},
                 !.fks     = {fk \in @ : fk[1] # t /\ fk[3] # t},
                 !.rows[t] = <<>>])

\* DROP TYPE IF EXISTS e CASCADE: never an error.  CASCADE would take the
\* columns of that type out of the tables that are left; the script sends
\* it only after all fourteen DROP TABLE statements succeeded.
DropTypeIfExistsCascade(d, e) ==
    Ok([d EXCEPT !.types = @ \ {e}])

\* Variant: the type is created only if it is missing, without an error.
CreateTypeIfMissing(d, e) == Ok([d EXCEPT !.types = @ \cup {e}])

\* CREATE TYPE e AS ENUM (...)
CreateType(d, e) ==
    IF e \in d.types
      THEN Err("DuplicateObject", d)
      ELSE Ok([d EXCEPT !.types = @ \cup {e}])

\* CREATE TABLE: the parser first, then the name, the column types, the
\* referenced tables.
CreateTable(d, def) ==
    IF def.cols \cap ReservedWords # {}
      THEN Err("SyntaxError", d)
    ELSE IF def.name \in d.tables
      THEN Err("DuplicateTable", d)
    ELSE IF ~(TypesOf(def) \subseteq d.types)
      THEN Err("UndefinedObject", d)
    ELSE IF ~(RefTables(def) \subseteq d.tables)
      THEN Err("UndefinedTable", d)
    ELSE Ok([d EXCEPT !.tables = @ \cup {def.name},
                      !.fks = @ \cup {<<def.name, fk[1], fk[2]>> : fk \in def.fks},
                      !.rows[def.name] = <<>>])

\* CREATE INDEX name ON table(...)
CreateIndex(d, ix) ==
    IF ix.on \notin d.tables
      THEN Err("UndefinedTable", d)
    ELSE IF ix.name \in d.indexes
      THEN Err("DuplicateTable", d)
    ELSE Ok([d EXCEPT !.indexes = @ \cup {ix.name}])

ParentIds(d, parent) == {d.rows[parent][i].id : i \in DOMAIN d.rows[parent]}

\* Variant: no foreign key is checked.
NoForeignKeyCheck(d, t, row) == FALSE

\* The row breaks a foreign key that exists on table t.
ViolatesForeignKey(d, t, row) ==
    \E fk \in d.fks :
        /\ fk[1] = t
        /\ fk[2] \in DOMAIN row
        /\ row[fk[2]] \notin ParentIds(d, fk[3])

\* The row repeats a value of a PRIMARY KEY or UNIQUE column of table t.
ViolatesUnique(d, t, row) ==
    \E c \in TableDef(t).uniq \cap DOMAIN row :
        \E i \in DOMAIN d.rows[t] :
            c \in DOMAIN d.rows[t][i] /\ d.rows[t][i][c] = row[c]

\* The row gives an enumerated column a label its type does not have.
ViolatesEnum(t, row) ==
    \E ec \in TableDef(t).enumcols :
        ec[1] \in DOMAIN row /\ row[ec[1]] \notin EnumValues[ec[2]]

\* INSERT INTO t (...) VALUES (...): row holds the columns the statement
\* gives; an id it does not give is generated and collides with nothing.
Insert(d, t, row) ==
    IF t \notin d.tables
      THEN Err("UndefinedTable", d)
    ELSE IF ViolatesEnum(t, row)
      THEN Err("InvalidTextRepresentation", d)
    ELSE IF ViolatesUnique(d, t, row)
      THEN Err("UniqueViolation", d)
    ELSE IF ViolatesForeignKey(d, t, row)
      THEN Err("ForeignKeyViolation", d)
    ELSE Ok([d EXCEPT !.rows[t] = Append(@, row)])

\* SELECT COUNT(*) FROM t: the one row it returns, as RealDictCursor gives
\* it: a mapping from the column name to the value.
SelectCount(d, t) ==
    IF t \notin d.tables
      THEN [err |-> "UndefinedTable", row |-> [count |-> 0]]
      ELSE [err |-> "none", row |-> [count |-> Len(d.rows[t])]]

(***************************************************************************)
(* Python, where the script depends on it.                                 *)
(***************************************************************************)
\* The functions the hashlib module has.
HashlibAttrs ==
    {"md5", "sha1", "sha256", "sha512", "blake2b", "new", "pbkdf2_hmac",
     "scrypt"}

\* hash_password: hashlib.pbkdf2_hex(password.encode(), b'salt', 100000).
\* The attribute lookup comes first; the value stands for the derived key,
\* a function of the password, the salt and the iteration count.
hash_password(password) ==
    IF "pbkdf2_hex" \in HashlibAttrs
      THEN [err |-> "none", value |-> <<"pbkdf2", password, "salt", 100000>>]
      ELSE [err |-> "AttributeError", value |-> <<>>]

\* One call of hash_password as the caller sees it: the argument, the
\* exception raised ("none": it returned) and the value returned.
Derivation(password) ==
    [password |-> password, err |-> hash_password(password).err,
     value |-> hash_password(password).value]

\* row[key] on a RealDictRow, a dict whose keys are the column names.  A
\* key is [kind |-> "str", name |-> s] or [kind |-> "int", pos |-> n]; an
\* integer equals no column name.
RealDictGet(row, key) ==
    IF key.kind = "str" /\ key.name \in DOMAIN row
      THEN [err |-> "none", value |-> row[key.name]]
      ELSE [err |-> "KeyError", value |-> 0]

\* self.cursor.fetchone()[0]
FetchOneIndex0(row) == RealDictGet(row, [kind |-> "int", pos |-> 0])

\* str.lower() on the answers the model draws from.
Lower(s) ==
    CASE s = "YES" -> "yes"
      [] s = "Yes" -> "yes"
      [] s = "NO"  -> "no"
      [] OTHER     -> s

\* not os.getenv(var): unset (None) or the empty string.
Falsy(v) == v \in {"unset", ""}

\* int(os.getenv('PGPORT', 5432)): the default is the integer itself; a
\* string must be a decimal numeral.
IntOfPort(v) ==
    CASE v = "unset" -> [err |-> "none", value |-> 5432]
      [] v = "5432"  -> [err |-> "none", value |-> 5432]
      [] OTHER       -> [err |-> "ValueError", value |-> 0]

(***************************************************************************)
(* Inputs the model draws from.                                            *)
(***************************************************************************)
Roles == {"mentor", "mentee", "admin"}

\* Values uuid.uuid4() and callers' dictionaries draw from.
UUIDs      == {"u1", "u2", "u3", "u4"}
SessionIds == 1 .. (MaxCalls + 1)

\* Arguments given to hash_password: the password of the seed accounts,
\* another one, and the empty one.
Passwords == {"password123", "hunter2", ""}

\* What the operator may type at the confirmation prompt.
Answers == {"yes", "YES", "Yes", "no", "y", ""}

\* Values of the environment variables: unset, empty, or set.
VarValues  == {"unset", "", "x"}
PortValues == {"unset", "5432", "abc"}
Environs ==
    [PGPORT : PortValues, PGDATABASE : VarValues, PGUSER : VarValues,
     PGPASSWORD : VarValues]

\* The rows a complete run of the seed statements is written to leave.
SeedUserIds == [mentor |-> "u1", mentee |-> "u2", admin |-> "u3"]

SeedUserRows ==
    [i \in DOMAIN users_data |->
        [id |-> SeedUserIds[users_data[i].role], role |-> users_data[i].role,
         email |-> users_data[i].email]]

SeedStepRows ==
    [i \in DOMAIN progression_data |->
        [code |-> progression_data[i].code,
         category |-> progression_data[i].category]]

SeedBadgeRows == [i \in DOMAIN badges_data |-> [code |-> badges_data[i]]]

\* A database with the whole schema and no rows.
SchemaDB ==
    [ types |-> Enums, tables |-> Tables,
      indexes |-> {indexes[i].name : i \in DOMAIN indexes},
      fks |-> UNION {{<<TableDefs[i].name, fk[1], fk[2]>> : fk \in TableDefs[i].fks}
                        : i \in DOMAIN TableDefs},
      rows |-> [t \in Tables |-> <<>>] ]

\* The schema with the three accounts only.
UsersDB == [SchemaDB EXCEPT !.rows["users"] = SeedUserRows]

\* The schema with all the seed rows.
SeededDB ==
    [SchemaDB EXCEPT
        !.rows["users"] = SeedUserRows,
        !.rows["mentors"] = <<[id |-> "u1"], [id |-> "u3"]>>,
        !.rows["mentees"] = <<[id |-> "u2"]>>,
        !.rows["progression_steps"] = SeedStepRows,
        !.rows["badges"] = SeedBadgeRows,
        !.rows["availability"] =
            <<[user_id |-> "u1", role |-> "mentor"],
              [user_id |-> "u2", role |-> "mentee"]>>,
        !.rows["session_blocks"] = <<[id |-> 1, mentor_id |-> "u1"]>>,
        !.rows["attendance_requests"] =
            <<[mentee_id |-> "u2", session_block_id |-> 1,
               status |-> "confirmed"]>>,
        !.rows["assignments"] =
            <<[session_block_id |-> 1, mentor_id |-> "u1",
               mentee_id |-> "u2", status |-> "confirmed"]>>]

\* The four types and nothing else: what is left when create_enums has
\* returned and the process ended before the first CREATE TABLE took effect.
TypesDB == [EmptyDB EXCEPT !.types = Enums]

\* The databases the first run may find.
InitDBs == {EmptyDB, TypesDB, SchemaDB, UsersDB, SeededDB}

\* The dictionaries a direct caller passes as user_ids.
UserIdsInputs ==
    { [mentor |-> "u1", mentee |-> "u2", admin |-> "u3"],
      [mentor |-> "u1", mentee |-> "u4", admin |-> "u3"],
      [mentor |-> "u4", mentee |-> "u4", admin |-> "u4"] }

\* Variant of the order below: the tables before the types.
RunOrderTablesFirst ==
    << "create_tables", "create_enums", "create_indexes", "seed_users",
       "seed_profiles", "seed_progression_steps", "seed_badges",
       "seed_sample_data", "verify_setup" >>

\* The stages of run_setup after connect and the optional drop, in order.
RunOrder ==
    << "create_enums", "create_tables", "create_indexes", "seed_users",
       "seed_profiles", "seed_progression_steps", "seed_badges",
       "seed_sample_data", "verify_setup" >>

StageMethods == Range(RunOrder) \cup {"drop_existing_schema"}

(***************************************************************************)
(* The state.                                                              *)
(***************************************************************************)
VARIABLES
    run,            \* which start of the program this is
    driver,         \* "main": the script; "direct": a caller of the class
    pc,             \* the method in progress, or where the process is
    stmt,           \* index of the next statement of the method in progress
    calls,          \* stage methods a direct caller has invoked
    drop_existing,  \* args.drop_existing
    confirm,        \* the answer read at the prompt ("none": none read)
    environ,        \* the environment variables the constructor reads
    conn,           \* self.conn:   "none", "open" or "closed"
    cursor,         \* self.cursor: "none", "open" or "closed"
    user_ids,       \* the dictionary seed_users builds / the argument
    session_id,     \* seed_sample_data's session_id (0: not drawn)
    db,             \* the database
    startDb,        \* the database as this start of the program found it
    out,            \* what was printed, as a set of message kinds
    missing_vars,   \* the names in the missing-variables diagnostic
    report,         \* the <<name, count>> lines verify_setup printed
    exitCode,       \* -1 while no exit status is set, else the status
    ended,          \* the method that ended last ("none": none has)
    fault,          \* the exception it ended with ("none": it returned)
    trace,          \* the methods this process has entered, in order
    derived,        \* the calls of hash_password: password, exception, value
    entryDb         \* the database as the last method entered found it

vars ==
    << run, driver, pc, stmt, calls, drop_existing, confirm, environ, conn,
       cursor, user_ids, session_id, db, startDb, out, missing_vars, report,
       exitCode, ended, fault, trace, derived, entryDb >>

NoEnviron ==
    [PGPORT |-> "unset", PGDATABASE |-> "unset", PGUSER |-> "unset",
     PGPASSWORD |-> "unset"]

\* The state of a process that has not started.
Fresh ==
    /\ driver = "none"
    /\ pc = "start"
    /\ stmt = 1
    /\ calls = 0
    /\ drop_existing = FALSE
    /\ confirm = "none"
    /\ environ = NoEnviron
    /\ conn = "none"
    /\ cursor = "none"
    /\ user_ids = <<>>
    /\ session_id = 0
    /\ out = {}
    /\ missing_vars = <<>>
    /\ report = <<>>
    /\ exitCode = -1
    /\ fault = "none"
    /\ ended = "none"
    /\ trace = <<>>
    /\ derived = <<>>

Init ==
    /\ run = 1
    /\ db \in InitDBs
    /\ startDb = db
    /\ entryDb = db
    /\ Fresh

(***************************************************************************)
(* How a method ends.  In run_setup every stage is called inside           *)
(*   try: ... except Exception as e: print("Setup failed"); sys.exit(1)    *)
(*   finally: self.disconnect()                                            *)
(* so an exception prints the failure line, sets exit status 1 and goes to *)
(* disconnect; a return goes to the next stage.  A direct caller gets the  *)
(* exception or the return value back.                                     *)
(***************************************************************************)
\* The stage run_setup calls after stage m; after the last one it prints
\* the summary and falls through to finally.
NextStage(m) ==
    LET i == CHOOSE k \in DOMAIN RunOrder : RunOrder[k] = m
    IN  IF i < Len(RunOrder) THEN RunOrder[i + 1] ELSE "disconnect"

\* The first stage run_setup calls after connect.
FirstStage(drop) == IF drop THEN "drop_existing_schema" ELSE RunOrder[1]

\* Variant of Raise: the failure is printed and the status set, but
\* run_setup goes on with the next stage.
RaiseAndGoOn(m, e) ==
    /\ fault' = e
    /\ ended' = m
    /\ stmt' = 1
    /\ IF driver = "main"
         THEN /\ pc' = IF m = "drop_existing_schema" THEN RunOrder[1]
                       ELSE NextStage(m)
              /\ out' = out \cup {"Setup failed"}
              /\ exitCode' = 1
         ELSE /\ pc' = "idle"
              /\ out' = out
              /\ exitCode' = exitCode

Raise(m, e) ==
    /\ fault' = e
    /\ ended' = m
    /\ stmt' = 1
    /\ IF driver = "main"
         THEN /\ pc' = "disconnect"
              /\ out' = out \cup {"Setup failed"}
              /\ exitCode' = 1
         ELSE /\ pc' = "idle"
              /\ out' = out
              /\ exitCode' = exitCode

Return(m) ==
    /\ fault' = "none"
    /\ ended' = m
    /\ UNCHANGED exitCode
    /\ stmt' = 1
    /\ IF driver = "main"
         THEN /\ pc' = IF m = "drop_existing_schema" THEN RunOrder[1]
                       ELSE NextStage(m)
              /\ out' = IF m = RunOrder[Len(RunOrder)]
                          THEN out \cup {m, "Setup completed"}
                          ELSE out \cup {m}
         ELSE /\ pc' = "idle"
              /\ out' = out \cup {m}

\* One statement of method m, which sends n of them, was answered with
\* exception err ("none": it succeeded).
Step(m, n, err) ==
    /\ trace' = IF stmt = 1 THEN Append(trace, m) ELSE trace
    /\ entryDb' = IF stmt = 1 THEN db ELSE entryDb
    /\ IF err # "none" THEN Raise(m, err)
       ELSE IF stmt = n THEN Return(m)
       ELSE /\ stmt' = stmt + 1
            /\ UNCHANGED <<pc, out, exitCode, fault, ended>>

\* cursor.execute may also fail for a reason outside the statement (the
\* server went away, the role lacks a privilege): OperationalError.  The
\* script's own runs meet such failures; a direct caller's database is the
\* fixture it prepared.
Outcomes == IF driver = "main" THEN {"answer", "OperationalError"} ELSE {"answer"}

Execute(o, res) == IF o = "answer" THEN res ELSE Err(o, db)

(***************************************************************************)
(* main and the constructor.                                               *)
(***************************************************************************)
\* Variant: only the answer "no" declines.
DeclinedOnlyNo(answer) == Lower(answer) = "no"

\* confirm.lower() != 'yes'
Declined(answer) == Lower(answer) # "yes"

\* [var for var in required_vars if not os.getenv(var)]
MissingVars(env) ==
    FilterSeq(required_vars, {v \in Range(required_vars) : Falsy(env[v])})

\* main up to the prompt: parse_args, then input() when --drop-existing is
\* given.  input() returns a line or raises EOFError, which nothing catches.
main ==
    /\ pc = "start"
    /\ driver' = "main"
    /\ \E flag \in BOOLEAN :
        /\ drop_existing' = flag
        /\ IF ~flag
             THEN /\ pc' = "init"
                  /\ UNCHANGED <<confirm, out, exitCode, fault, ended>>
             ELSE \E answer \in Answers \cup {"EOF"} :
                    IF answer = "EOF"
                      THEN /\ pc' = "exit"
                           /\ exitCode' = 1
                           /\ fault' = "EOFError"
                           /\ ended' = "main"
                           /\ UNCHANGED <<confirm, out>>
                    ELSE IF Declined(answer)
                      THEN /\ confirm' = answer
                           /\ out' = out \cup {"Setup cancelled"}
                           /\ pc' = "exit"
                           /\ exitCode' = 0
                           /\ ended' = "main"
                           /\ UNCHANGED fault
                    ELSE /\ confirm' = answer
                         /\ pc' = "init"
                         /\ UNCHANGED <<out, exitCode, fault, ended>>
    /\ UNCHANGED <<derived,
                   run, stmt, calls, environ, conn, cursor, user_ids,
                   session_id, db, startDb, missing_vars, report, trace,
                   entryDb>>

\* A caller other than main constructs the object itself and calls connect,
\* some stage methods and disconnect.  It starts from a database it
\* prepared, not from one an earlier run of the script left.
direct_use ==
    /\ pc = "start"
    /\ run = 1
    /\ driver' = "direct"
    /\ pc' = "init"
    /\ UNCHANGED <<derived,
                   run, stmt, calls, drop_existing, confirm, environ, conn,
                   cursor, user_ids, session_id, db, startDb, out,
                   missing_vars, report, exitCode, fault, ended, trace,
                   entryDb>>

\* DatabaseSetup.__init__: the port is converted first, then the required
\* variables are checked.  The environment is read here for the first time.
DatabaseSetup ==
    /\ pc = "init"
    /\ \E env \in Environs :
        /\ environ' = env
        /\ IF IntOfPort(env.PGPORT).err # "none"
             THEN /\ fault' = IntOfPort(env.PGPORT).err
                  /\ exitCode' = 1
                  /\ pc' = "exit"
                  /\ UNCHANGED <<out, missing_vars>>
           ELSE IF MissingVars(env) # <<>>
             THEN /\ out' = out \cup {"Missing required environment variables"}
                  /\ missing_vars' = MissingVars(env)
                  /\ exitCode' = 1
                  /\ fault' = "SystemExit"
                  /\ pc' = "exit"
           ELSE /\ pc' = "connect"
                /\ UNCHANGED <<out, missing_vars, exitCode, fault>>
    /\ ended' = "__init__"
    /\ trace' = Append(trace, "__init__")
    /\ UNCHANGED <<derived,
                   run, driver, stmt, calls, drop_existing, confirm, conn,
                   cursor, user_ids, session_id, db, startDb, report, entryDb>>

(***************************************************************************)
(* connect and disconnect.                                                 *)
(***************************************************************************)
\* connect: psycopg2.connect or conn.cursor may raise psycopg2.Error, which
\* connect catches: it prints the error and calls sys.exit(1).  SystemExit
\* is no Exception: in run_setup it passes the except clause and only the
\* finally clause runs.
connect ==
    /\ pc = "connect"
    /\ \E o \in {"connected", "connect failed", "cursor failed"} :
        /\ conn' = IF o = "connect failed" THEN "none" ELSE "open"
        /\ cursor' = IF o = "connected" THEN "open" ELSE "none"
        /\ IF o = "connected"
             THEN /\ out' = out \cup {"connect"}
                  /\ pc' = IF driver = "main" THEN FirstStage(drop_existing)
                           ELSE "idle"
                  /\ UNCHANGED <<exitCode, fault>>
             ELSE /\ out' = out \cup {"Error connecting to database"}
                  /\ exitCode' = 1
                  /\ fault' = "SystemExit"
                  /\ pc' = IF driver = "main" THEN "disconnect" ELSE "exit"
    /\ ended' = "connect"
    /\ trace' = Append(trace, "connect")
    /\ UNCHANGED <<derived,
                   run, driver, stmt, calls, drop_existing, confirm, environ,
                   user_ids, session_id, db, startDb, missing_vars, report,
                   entryDb>>

\* Variant of disconnect: the cursor is closed, the connection is not.
disconnect_cursor_only ==
    /\ pc = "disconnect"
    /\ cursor' = IF cursor = "open" THEN "closed" ELSE cursor
    /\ exitCode' = IF exitCode = -1 THEN 0 ELSE exitCode
    /\ pc' = "exit"
    /\ trace' = Append(trace, "disconnect")
    /\ UNCHANGED <<derived,
                   run, driver, stmt, calls, drop_existing, confirm, environ,
                   conn, user_ids, session_id, db, startDb, out, missing_vars,
                   report, fault, ended, entryDb>>

\* disconnect, and the end of the process after it: status 0 unless
\* sys.exit set another.
disconnect ==
    /\ pc = "disconnect"
    /\ cursor' = IF cursor = "open" THEN "closed" ELSE cursor
    /\ conn' = IF conn = "open" THEN "closed" ELSE conn
    /\ exitCode' = IF exitCode = -1 THEN 0 ELSE exitCode
    /\ pc' = "exit"
    /\ trace' = Append(trace, "disconnect")
    /\ UNCHANGED <<derived,
                   run, driver, stmt, calls, drop_existing, confirm, environ,
                   user_ids, session_id, db, startDb, out, missing_vars,
                   report, fault, ended, entryDb>>

(***************************************************************************)
(* The stages.  Each action is one cursor.execute of the method, with the  *)
(* Python around it.                                                       *)
(***************************************************************************)
drop_existing_schema ==
    /\ pc = "drop_existing_schema"
    /\ \E o \in Outcomes :
        LET res == Execute(o,
                     IF stmt <= Len(DropTables)
                       THEN DropTableIfExistsCascade(db, DropTables[stmt])
                       ELSE DropTypeIfExistsCascade(db,
                                DropEnums[stmt - Len(DropTables)]))
        IN  /\ db' = res.db
            /\ Step("drop_existing_schema",
                    Len(DropTables) + Len(DropEnums), res.err)
    /\ UNCHANGED <<derived,
                   run, driver, calls, drop_existing, confirm, environ, conn,
                   cursor, user_ids, session_id, startDb, missing_vars,
                   report>>

create_enums ==
    /\ pc = "create_enums"
    /\ \E o \in Outcomes :
        LET res == Execute(o, CreateType(db, enums[stmt]))
        IN  /\ db' = res.db
            /\ Step("create_enums", Len(enums), res.err)
    /\ UNCHANGED <<derived,
                   run, driver, calls, drop_existing, confirm, environ, conn,
                   cursor, user_ids, session_id, startDb, missing_vars,
                   report>>

create_tables ==
    /\ pc = "create_tables"
    /\ \E o \in Outcomes :
        LET res == Execute(o, CreateTable(db, TableDefs[stmt]))
        IN  /\ db' = res.db
            /\ Step("create_tables", Len(TableDefs), res.err)
    /\ UNCHANGED <<derived,
                   run, driver, calls, drop_existing, confirm, environ, conn,
                   cursor, user_ids, session_id, startDb, missing_vars,
                   report>>

create_indexes ==
    /\ pc = "create_indexes"
    /\ \E o \in Outcomes :
        LET res == Execute(o, CreateIndex(db, indexes[stmt]))
        IN  /\ db' = res.db
            /\ Step("create_indexes", Len(indexes), res.err)
    /\ UNCHANGED <<derived,
                   run, driver, calls, drop_existing, confirm, environ, conn,
                   cursor, user_ids, session_id, startDb, missing_vars,
                   report>>

\* seed_users: per account uuid4(), hash_password, INSERT, then the id is
\* put in the dictionary.  uuid4 never returns a value in use.
seed_users ==
    /\ pc = "seed_users"
    /\ LET u    == users_data[stmt]
           h    == hash_password(u.password)
           sofar == IF stmt = 1 THEN <<>> ELSE user_ids
       IN  /\ derived' = Append(derived, Derivation(u.password))
           /\ IF h.err # "none"
             THEN /\ Step("seed_users", Len(users_data), h.err)
                  /\ user_ids' = sofar
                  /\ UNCHANGED db
             ELSE \E user_id \in UUIDs \ (ParentIds(db, "users")
                                               \cup Range(sofar)),
                     o \in Outcomes :
                    LET res == Execute(o, Insert(db, "users",
                                   [id |-> user_id, role |-> u.role,
                                    email |-> u.email,
                                    password_hash |-> h.value]))
                    IN  /\ db' = res.db
                        /\ user_ids' = IF res.err = "none"
                                         THEN (u.role :> user_id) @@ sofar
                                         ELSE sofar
                        /\ Step("seed_users", Len(users_data), res.err)
    /\ UNCHANGED <<run, driver, calls, drop_existing, confirm, environ, conn,
                   cursor, session_id, startDb, missing_vars, report>>

\* seed_profiles(user_ids): mentor profile, admin's mentor profile, mentee
\* profile.
ProfileInserts(ids) ==
    << [table |-> "mentors", row |-> [id |-> ids["mentor"]]],
       [table |-> "mentors", row |-> [id |-> ids["admin"]]],
       [table |-> "mentees",
        row |-> [id |-> ids["mentee"], comfort_level |-> "medium"]] >>

seed_profiles ==
    /\ pc = "seed_profiles"
    /\ \E o \in Outcomes :
        LET ins == ProfileInserts(user_ids)[stmt]
            res == Execute(o, Insert(db, ins.table, ins.row))
        IN  /\ db' = res.db
            /\ Step("seed_profiles", Len(ProfileInserts(user_ids)), res.err)
    /\ UNCHANGED <<derived,
                   run, driver, calls, drop_existing, confirm, environ, conn,
                   cursor, user_ids, session_id, startDb, missing_vars,
                   report>>

seed_progression_steps ==
    /\ pc = "seed_progression_steps"
    /\ \E o \in Outcomes :
        LET res == Execute(o, Insert(db, "progression_steps",
                       [code |-> progression_data[stmt].code,
                        category |-> progression_data[stmt].category]))
        IN  /\ db' = res.db
            /\ Step("seed_progression_steps", Len(progression_data), res.err)
    /\ UNCHANGED <<derived,
                   run, driver, calls, drop_existing, confirm, environ, conn,
                   cursor, user_ids, session_id, startDb, missing_vars,
                   report>>

seed_badges ==
    /\ pc = "seed_badges"
    /\ \E o \in Outcomes :
        LET res == Execute(o, Insert(db, "badges", [code |-> badges_data[stmt]]))
        IN  /\ db' = res.db
            /\ Step("seed_badges", Len(badges_data), res.err)
    /\ UNCHANGED <<derived,
                   run, driver, calls, drop_existing, confirm, environ, conn,
                   cursor, user_ids, session_id, startDb, missing_vars,
                   report>>

\* seed_sample_data(user_ids): two availability rows, then session_id =
\* uuid4(), a session block, an attendance request and an assignment.
SampleInserts(ids, sid) ==
    << [table |-> "availability",
        row |-> [user_id |-> ids["mentor"], role |-> "mentor"]],
       [table |-> "availability",
        row |-> [user_id |-> ids["mentee"], role |-> "mentee"]],
       [table |-> "session_blocks",
        row |-> [id |-> sid, mentor_id |-> ids["mentor"]]],
       [table |-> "attendance_requests",
        row |-> [mentee_id |-> ids["mentee"], session_block_id |-> sid,
                 status |-> "confirmed"]],
       [table |-> "assignments",
        row |-> [session_block_id |-> sid, mentor_id |-> ids["mentor"],
                 mentee_id |-> ids["mentee"], status |-> "confirmed"]] >>

seed_sample_data ==
    /\ pc = "seed_sample_data"
    /\ \E sid \in IF stmt = 3
                    THEN SessionIds \ ParentIds(db, "session_blocks")
                    ELSE {session_id},
          o \in Outcomes :
        LET ins == SampleInserts(user_ids, sid)[stmt]
            res == Execute(o, Insert(db, ins.table, ins.row))
        IN  /\ db' = res.db
            /\ session_id' = sid
            /\ Step("seed_sample_data", Len(SampleInserts(user_ids, sid)),
                    res.err)
    /\ UNCHANGED <<derived,
                   run, driver, calls, drop_existing, confirm, environ, conn,
                   cursor, user_ids, startDb, missing_vars, report>>

\* verify_setup: SELECT COUNT(*) for each of seven tables, each followed by
\* fetchone()[0]; then one SELECT that groups the progression steps of the
\* categories 2way, 3way and 4way.  Nothing is written.
CategoryCount(d, c) ==
    Cardinality({i \in DOMAIN d.rows["progression_steps"] :
                    d.rows["progression_steps"][i].category = c})

FormationCounts(d) ==
    LET cats  == <<"2way", "3way", "4way">>
        found == FilterSeq(cats, {c \in Range(cats) : CategoryCount(d, c) > 0})
    IN  [i \in DOMAIN found |-> <<found[i], CategoryCount(d, found[i])>>]

verify_setup ==
    /\ pc = "verify_setup"
    /\ \E o \in Outcomes :
        IF stmt <= Len(verify_tables)
          THEN LET sel == SelectCount(db, verify_tables[stmt])
                   err == IF o # "answer" THEN o
                          ELSE IF sel.err # "none" THEN sel.err
                          ELSE FetchOneIndex0(sel.row).err
               IN  /\ report' = IF err = "none"
                                  THEN Append(report,
                                         <<verify_tables[stmt],
                                           FetchOneIndex0(sel.row).value>>)
                                  ELSE report
                   /\ Step("verify_setup", Len(verify_tables) + 1, err)
          ELSE LET err == IF o # "answer" THEN o
                          ELSE IF "progression_steps" \notin db.tables
                            THEN "UndefinedTable"
                          ELSE "none"
               IN  /\ report' = IF err = "none"
                                  THEN report \o FormationCounts(db)
                                  ELSE report
                   /\ Step("verify_setup", Len(verify_tables) + 1, err)
    /\ UNCHANGED <<derived,
                   run, driver, calls, drop_existing, confirm, environ, conn,
                   cursor, user_ids, session_id, db, startDb, missing_vars>>

(***************************************************************************)
(* The direct caller, and the next start of the script.                    *)
(***************************************************************************)
\* setup.<stage>(...) called by a direct caller; seed_profiles and
\* seed_sample_data take the dictionary as their argument.
call ==
    /\ pc = "idle"
    /\ calls < MaxCalls
    /\ \E m \in StageMethods :
        /\ pc' = m
        /\ IF m \in {"seed_profiles", "seed_sample_data"}
             THEN user_ids' \in UserIdsInputs
             ELSE user_ids' = user_ids
    /\ calls' = calls + 1
    /\ stmt' = 1
    /\ UNCHANGED <<derived,
                   run, driver, drop_existing, confirm, environ, conn, cursor,
                   session_id, db, startDb, out, missing_vars, report,
                   exitCode, fault, ended, trace, entryDb>>

\* setup.hash_password(password) called by a direct caller: no statement
\* is sent, the caller gets the value or the exception back.
call_hash_password ==
    /\ pc = "idle"
    /\ calls < MaxCalls
    /\ \E password \in Passwords :
        /\ derived' = Append(derived, Derivation(password))
        /\ fault' = hash_password(password).err
    /\ ended' = "hash_password"
    /\ calls' = calls + 1
    /\ UNCHANGED <<run, driver, pc, stmt, drop_existing, confirm, environ,
                   conn, cursor, user_ids, session_id, db, startDb, out,
                   missing_vars, report, exitCode, trace, entryDb>>

\* The direct caller is done and calls setup.disconnect().
finish ==
    /\ pc = "idle"
    /\ pc' = "disconnect"
    /\ UNCHANGED <<derived,
                   run, driver, stmt, calls, drop_existing, confirm, environ,
                   conn, cursor, user_ids, session_id, db, startDb, out,
                   missing_vars, report, exitCode, fault, ended, trace,
                   entryDb>>

\* The script is started again on the database its last run left.
next_run ==
    /\ pc = "exit"
    /\ driver = "main"
    /\ run < MaxRuns
    /\ run' = run + 1
    /\ startDb' = db
    /\ driver' = "none"
    /\ pc' = "start"
    /\ stmt' = 1
    /\ calls' = 0
    /\ drop_existing' = FALSE
    /\ confirm' = "none"
    /\ environ' = NoEnviron
    /\ conn' = "none"
    /\ cursor' = "none"
    /\ user_ids' = <<>>
    /\ session_id' = 0
    /\ out' = {}
    /\ missing_vars' = <<>>
    /\ report' = <<>>
    /\ exitCode' = -1
    /\ fault' = "none"
    /\ ended' = "none"
    /\ trace' = <<>>
    /\ derived' = <<>>
    /\ entryDb' = db
    /\ UNCHANGED db

Next ==
    \/ main
    \/ direct_use
    \/ DatabaseSetup
    \/ connect
    \/ disconnect
    \/ drop_existing_schema
    \/ create_enums
    \/ create_tables
    \/ create_indexes
    \/ seed_users
    \/ seed_profiles
    \/ seed_progression_steps
    \/ seed_badges
    \/ seed_sample_data
    \/ verify_setup
    \/ call
    \/ call_hash_password
    \/ finish
    \/ next_run

Spec == Init /\ [][Next]_vars

(***************************************************************************)
(* Vocabulary of the properties.                                           *)
(***************************************************************************)
Entered(m) == m \in Range(trace)

\* The process has ended.
Exited == pc = "exit"

\* The constructor found every required variable and a usable port.
ConfigurationPresent ==
    /\ Entered("__init__")
    /\ \A v \in Range(required_vars) : environ[v] \notin {"unset", ""}
    /\ environ.PGPORT \in {"unset", "5432"}

\* connect returned: the server was reachable.
Connected == "connect" \in out

\* Method m is the one that ended last and no other has started since.
JustEnded(m) == ended = m /\ stmt = 1 /\ pc # m

RowsOf(d, t) == Range(d.rows[t])

NoRows(d) == \A t \in Tables : d.rows[t] = <<>>

\* The seed volumes: three accounts, one per role; twenty-four steps, 2, 6,
\* 10, 3 and 3 per category; ten badges.
UsersSeeded(d) ==
    /\ Len(d.rows["users"]) = 3
    /\ \A r \in Roles :
          Cardinality({i \in DOMAIN d.rows["users"] :
                          d.rows["users"][i].role = r}) = 1

StepsSeeded(d) ==
    /\ Len(d.rows["progression_steps"]) = 24
    /\ CategoryCount(d, "2way") = 2
    /\ CategoryCount(d, "3way") = 6
    /\ CategoryCount(d, "4way") = 10
    /\ CategoryCount(d, "canopy") = 3
    /\ CategoryCount(d, "safety") = 3

BadgesSeeded(d) == Len(d.rows["badges"]) = 10

\* Method m has just ended, the server answered all its statements, and
\* it had found table t existing and empty.
EndedOnEmpty(m, t) ==
    /\ JustEnded(m)
    /\ fault # "OperationalError"
    /\ t \in entryDb.tables
    /\ entryDb.rows[t] = <<>>

(***************************************************************************)
(* C1.  After the seeding steps of run_setup have run against a freshly    *)
(* created schema, users holds exactly 3 rows, one per role,               *)
(* progression_steps exactly 24 rows (2, 6, 10, 3, 3 per category) and     *)
(* badges exactly 10 rows.  Stated step by step: each of seed_users,       *)
(* seed_progression_steps and seed_badges, once it has ended on a table    *)
(* that existed and was empty, has left its rows; and of the whole: a run  *)
(* of the script that was configured, connected, started on an empty       *)
(* database or with --drop-existing and met no failure of the server ends  *)
(* with all of them.                                                       *)
(***************************************************************************)
C1_SeedVolumes ==
    /\ EndedOnEmpty("seed_users", "users") => UsersSeeded(db)
    /\ EndedOnEmpty("seed_progression_steps", "progression_steps")
          => StepsSeeded(db)
    /\ EndedOnEmpty("seed_badges", "badges") => BadgesSeeded(db)
    /\ ( /\ driver = "main"
         /\ Exited
         /\ ConfigurationPresent
         /\ Connected
         /\ startDb = EmptyDB \/ drop_existing
         /\ fault # "OperationalError" )
       => UsersSeeded(db) /\ StepsSeeded(db) /\ BadgesSeeded(db)

(***************************************************************************)
(* C2.  The process exits with status zero on full success and non-zero on *)
(* a configuration error, a connection failure or a statement failure; in  *)
(* particular a run with all required configuration present against a      *)
(* reachable, empty database ends with exit status zero.                   *)
(***************************************************************************)
C2_ExitStatus ==
    ( driver = "main" /\ Exited ) =>
        /\ ( /\ ConfigurationPresent
             /\ Connected
             /\ startDb = EmptyDB
             /\ fault # "OperationalError" ) => exitCode = 0
        /\ ( fault # "none" \/ missing_vars # <<>> ) => exitCode # 0
        /\ "Setup completed" \in out => exitCode = 0

(***************************************************************************)
(* C3.  run_setup executes its steps in the fixed order connect, (drop     *)
(* only with drop_existing), create_enums, create_tables, create_indexes,  *)
(* seed_users, seed_profiles, seed_progression_steps, seed_badges,         *)
(* seed_sample_data, verify_setup, summary, disconnect; and once a step    *)
(* has raised, no later step but disconnect is executed, a failure line    *)
(* has been printed ("Setup failed", or connect's own "Error connecting to *)
(* database") and the exit status is non-zero.                            *)
(***************************************************************************)
IsPrefix(s, t) ==
    Len(s) <= Len(t) /\ \A i \in DOMAIN s : s[i] = t[i]

\* The steps in the order the claim gives them, after the constructor and
\* before disconnect.
C3_Steps(drop) ==
    <<"__init__", "connect">>
    \o (IF drop THEN <<"drop_existing_schema">> ELSE <<>>)
    \o <<"create_enums", "create_tables", "create_indexes", "seed_users",
         "seed_profiles", "seed_progression_steps", "seed_badges",
         "seed_sample_data", "verify_setup">>

\* The steps entered so far, disconnect apart.
StepsBeforeDisconnect ==
    IF trace # <<>> /\ trace[Len(trace)] = "disconnect"
      THEN SubSeq(trace, 1, Len(trace) - 1)
      ELSE trace

C3_FixedOrderAndAbort ==
    driver = "main" =>
        /\ IsPrefix(StepsBeforeDisconnect, C3_Steps(drop_existing))
        /\ "disconnect" \in Range(trace) => Exited
        /\ ( fault # "none" /\ ended \in Range(C3_Steps(drop_existing)) \ {"__init__"} )
             => /\ StepsBeforeDisconnect[Len(StepsBeforeDisconnect)] = ended
                /\ pc \in {"disconnect", "exit"}
                /\ exitCode > 0
                /\ out \cap {"Setup failed", "Error connecting to database"} # {}
        /\ "Setup completed" \in out
             => StepsBeforeDisconnect = C3_Steps(drop_existing)

\* A step (create_tables) raised in a run of the script, which then ended.
C3_Witness ==
    /\ driver = "main"
    /\ Exited
    /\ ended = "create_tables"
    /\ fault = "SyntaxError"
    /\ trace = <<"__init__", "connect", "create_enums", "create_tables",
                 "disconnect">>
    /\ "Setup failed" \in out
    /\ exitCode = 1

(***************************************************************************)
(* C4.  On every exit path of run_setup (success, a failed connect, an     *)
(* exception in any step) disconnect is executed before the process ends:  *)
(* no run of the script ends with a connection or cursor that was opened   *)
(* and not closed, and when connect got no connection disconnect changes   *)
(* nothing.                                                                *)
(***************************************************************************)
C4_ConnectionReleased ==
    /\ []( ( driver = "main" /\ Exited ) =>
             /\ conn # "open"
             /\ cursor # "open"
             /\ Entered("connect") => trace[Len(trace)] = "disconnect" )
    /\ [][ ( pc = "disconnect" /\ conn = "none" ) =>
             ( conn' = "none" /\ cursor' = cursor /\ db' = db ) ]_vars

\* A run that opened a connection, failed in a step and closed both the
\* cursor and the connection before it ended.
C4_Witness ==
    /\ driver = "main"
    /\ Exited
    /\ fault \notin {"none", "SystemExit"}
    /\ conn = "closed"
    /\ cursor = "closed"
    /\ trace[Len(trace)] = "disconnect"

(***************************************************************************)
(* C5.  create_enums succeeds only on a target where none of the four      *)
(* enumerated types exists.  A run of the script in which create_enums     *)
(* returned leaves all four behind (nothing is rolled back), and a run     *)
(* without --drop-existing that connects to a database holding all four    *)
(* fails at create_enums, with "already exists" (DuplicateObject) whenever *)
(* the server answers the statement, enters no later stage and leaves the  *)
(* database as it found it.                                                *)
(***************************************************************************)
C5_Types == {"role", "status", "comfort_level", "category"}

C5_EnumsOnlyOnce ==
    /\ ( JustEnded("create_enums") /\ fault = "none" )
          => entryDb.types \cap C5_Types = {} /\ C5_Types \subseteq db.types
    /\ ( driver = "main" /\ "create_enums" \in out )
          => C5_Types \subseteq db.types
    /\ ( /\ driver = "main"
         /\ ~drop_existing
         /\ Connected
         /\ C5_Types \subseteq startDb.types )
          => /\ db = startDb
             /\ Range(trace) \subseteq
                   {"__init__", "connect", "create_enums", "disconnect"}
             /\ ended = "create_enums"
                   => fault \in {"DuplicateObject", "OperationalError"}
             /\ Exited => ended = "create_enums" /\ exitCode = 1

\* The second run of the script, without --drop-existing, on what a first
\* run that failed in create_tables left: it failed at create_enums with
\* "already exists" and changed nothing.
C5_Witness ==
    /\ run = 2
    /\ driver = "main"
    /\ ~drop_existing
    /\ Exited
    /\ ended = "create_enums"
    /\ fault = "DuplicateObject"
    /\ startDb \notin InitDBs
    /\ startDb.tables # {}
    /\ db = startDb

(***************************************************************************)
(* C6.  drop_existing_schema is idempotent: whatever tables and types the  *)
(* database holds, it meets no error of its own and, having returned,      *)
(* leaves none of the 14 tables and 4 types; run again at once it returns  *)
(* again and leaves the same empty state.                                  *)
(***************************************************************************)
C6_DropIdempotent ==
    JustEnded("drop_existing_schema") =>
        /\ fault \in {"none", "OperationalError"}
        /\ fault = "none" =>
              /\ db.tables = {}
              /\ db.types = {}
              /\ db.indexes = {}
              /\ NoRows(db)

\* The second of two calls in a row, the first on a database with tables:
\* it found nothing to drop and returned.
C6_Witness ==
    /\ JustEnded("drop_existing_schema")
    /\ fault = "none"
    /\ startDb.tables # {}
    /\ entryDb.tables = {}
    /\ entryDb.types = {}
    /\ db = entryDb
    /\ Len(trace) >= 2
    /\ trace[Len(trace)] = "drop_existing_schema"
    /\ trace[Len(trace) - 1] = "drop_existing_schema"

(***************************************************************************)
(* C7.  After drop_existing_schema followed by create_enums and            *)
(* create_tables, and before any seed step, every one of the 14 tables     *)
(* exists and holds no row, whatever the database held before.             *)
(***************************************************************************)
C7_Tables ==
    {"users", "mentors", "mentees", "availability", "session_blocks",
     "attendance_requests", "preferences", "assignments",
     "progression_steps", "step_completions", "badges", "awards",
     "jump_logs", "audit_events"}

C7_AllTablesEmptyAfterReset ==
    ( /\ JustEnded("create_tables")
      /\ fault # "OperationalError"
      /\ Len(trace) >= 3
      /\ SubSeq(trace, Len(trace) - 2, Len(trace)) =
            <<"drop_existing_schema", "create_enums", "create_tables">>
      /\ {"drop_existing_schema", "create_enums"} \subseteq out )
    => /\ db.tables = C7_Tables
       /\ NoRows(db)

(***************************************************************************)
(* C8.  Every row of mentors and of mentees has a row in users with the    *)
(* same id, in every state; and an insert by seed_profiles of a row whose  *)
(* id is not in users is rejected and adds no row.                         *)
(***************************************************************************)
C8_UserIds == {db.rows["users"][i].id : i \in DOMAIN db.rows["users"]}

C8_ProfilesHaveUsers ==
    /\ [](\A t \in {"mentors", "mentees"} :
             \A i \in DOMAIN db.rows[t] : db.rows[t][i].id \in C8_UserIds)
    /\ [][ ( /\ pc = "seed_profiles"
             /\ ProfileInserts(user_ids)[stmt].row.id \notin C8_UserIds )
           => ( db' = db /\ fault' # "none" /\ ended' = "seed_profiles" ) ]_vars

\* seed_profiles inserted the two mentor profiles of existing users and
\* was refused the mentee profile of an id that is not in users.
C8_Witness ==
    /\ JustEnded("seed_profiles")
    /\ fault = "ForeignKeyViolation"
    /\ user_ids["mentee"] \notin C8_UserIds
    /\ Len(db.rows["mentors"]) = 2
    /\ db.rows["mentees"] = <<>>

(***************************************************************************)
(* C9.  If any of PGDATABASE, PGUSER, PGPASSWORD is unset or empty,        *)
(* constructing DatabaseSetup prints a diagnostic naming every missing     *)
(* variable, and only those, and exits with status 1 before connect is     *)
(* called: no connection attempt, no statement.                            *)
(***************************************************************************)
C9_MissingVariablesDiagnosed ==
    ( /\ Entered("__init__")
      /\ \E v \in {"PGDATABASE", "PGUSER", "PGPASSWORD"} :
            environ[v] \in {"unset", ""} )
    => /\ Exited
       /\ exitCode = 1
       /\ "Missing required environment variables" \in out
       /\ Range(missing_vars) =
             {v \in {"PGDATABASE", "PGUSER", "PGPASSWORD"} :
                 environ[v] \in {"unset", ""}}
       /\ ~Entered("connect")
       /\ conn = "none"
       /\ db = startDb

(***************************************************************************)
(* C10.  When main is run with --drop-existing and the answer at the       *)
(* prompt is anything but "yes" in some letter case, main returns without  *)
(* constructing DatabaseSetup, connecting or executing a statement, and    *)
(* the database is left as it was; drop_existing_schema is entered only    *)
(* after an affirmative answer.                                            *)
(***************************************************************************)
C10_Affirmative == {"yes", "YES", "Yes"}

C10_DeclineLeavesAllUntouched ==
    driver = "main" =>
        /\ ( drop_existing /\ confirm \notin C10_Affirmative )
              => /\ trace = <<>>
                 /\ conn = "none"
                 /\ cursor = "none"
                 /\ db = startDb
        /\ ( drop_existing /\ confirm \notin C10_Affirmative \cup {"none"} )
              => /\ Exited
                 /\ exitCode = 0
        /\ Entered("drop_existing_schema")
              => drop_existing /\ confirm \in C10_Affirmative

\* The operator answered "y" on a seeded database: the process has ended
\* and every table and row is still there.
C10_Witness ==
    /\ driver = "main"
    /\ drop_existing
    /\ confirm = "y"
    /\ Exited
    /\ startDb = SeededDB
    /\ db = SeededDB

(***************************************************************************)
(* C11.  Credential derivation is deterministic: every call of             *)
(* hash_password returns a value, two calls with the same password return  *)
(* the same value, and calls with two different passwords return different *)
(* values.                                                                 *)
(***************************************************************************)
C11_DerivationDeterministic ==
    \A i, j \in DOMAIN derived :
        /\ derived[i].err = "none"
        /\ (derived[i].password = derived[j].password)
              <=> (derived[i].value = derived[j].value)

(***************************************************************************)
(* C12.  drop_existing_schema removes the tables in reverse-dependency     *)
(* order: when the DROP TABLE of a table is about to be sent, no other     *)
(* table that still exists holds a foreign key to it, every table that     *)
(* references it stands earlier in the list, and the DROP TYPE statements  *)
(* are sent only when all 14 tables are gone.                              *)
(***************************************************************************)
C12_Position(t) == CHOOSE k \in DOMAIN DropTables : DropTables[k] = t

C12_ReverseDependencyOrder ==
    /\ Len(DropTables) = 14
    /\ Range(DropTables) = Tables
    /\ \A i \in DOMAIN TableDefs :
          \A parent \in RefTables(TableDefs[i]) :
              C12_Position(TableDefs[i].name) < C12_Position(parent)
    /\ pc = "drop_existing_schema" /\ stmt <= Len(DropTables)
          => \A fk \in db.fks :
                fk[3] = DropTables[stmt] => fk[1] = DropTables[stmt]
    /\ pc = "drop_existing_schema" /\ stmt > Len(DropTables)
          => db.tables = {}

\* drop_existing_schema has returned on a database that held all the
\* tables with their foreign keys, and the types.
C12_Witness ==
    /\ JustEnded("drop_existing_schema")
    /\ fault = "none"
    /\ entryDb.tables = Tables
    /\ entryDb.types = Enums
    /\ \A i \in DOMAIN TableDefs :
          \A fk \in TableDefs[i].fks :
              <<TableDefs[i].name, fk[1], fk[2]>> \in entryDb.fks
    /\ db.tables = {}
    /\ db.types = {}

(***************************************************************************)
(* C13.  Schema creation respects the dependency graph: run_setup creates  *)
(* the types before the tables, the tables before the indexes and the      *)
(* indexes before it seeds; every CREATE TABLE stands after the CREATE     *)
(* TABLE of each table it references; each of the 16 indexes is on one of  *)
(* the tables.  So in a run of the script every CREATE TABLE is sent when  *)
(* the types of its columns and the tables it references exist, and        *)
(* whenever a table or an index comes into existence the types and tables  *)
(* it depends on exist already and, in a run of the script, no seeding     *)
(* stage has been entered.                                                 *)
(***************************************************************************)
C13_Stage(m) == CHOOSE k \in DOMAIN RunOrder : RunOrder[k] = m

C13_SeedStages ==
    {"seed_users", "seed_profiles", "seed_progression_steps", "seed_badges",
     "seed_sample_data"}

C13_ListsInOrder ==
    /\ C13_Stage("create_enums") < C13_Stage("create_tables")
    /\ C13_Stage("create_tables") < C13_Stage("create_indexes")
    /\ \A m \in C13_SeedStages : C13_Stage("create_indexes") < C13_Stage(m)
    /\ \A k \in DOMAIN TableDefs :
          /\ TypesOf(TableDefs[k]) \subseteq Range(enums)
          /\ RefTables(TableDefs[k])
                \subseteq {TableDefs[j].name : j \in 1 .. (k - 1)}
    /\ Len(indexes) = 16
    /\ \A i \in DOMAIN indexes : indexes[i].on \in Tables

C13_SentInOrder ==
    driver = "main" /\ pc = "create_tables"
        => /\ TypesOf(TableDefs[stmt]) \subseteq db.types
           /\ RefTables(TableDefs[stmt]) \subseteq db.tables

C13_CreatedInOrder ==
    /\ \A t \in db'.tables \ db.tables :
          /\ TypesOf(TableDef(t)) \subseteq db.types
          /\ RefTables(TableDef(t)) \subseteq db.tables
    /\ \A ix \in db'.indexes \ db.indexes :
          /\ IndexTable(ix) \in db.tables
          /\ db.rows[IndexTable(ix)] = <<>>
    /\ driver = "main" /\ (db'.tables # db.tables \/ db'.indexes # db.indexes)
          => Range(trace') \cap C13_SeedStages = {}

C13_SchemaCreationOrder ==
    /\ [](C13_ListsInOrder /\ C13_SentInOrder)
    /\ [][C13_CreatedInOrder]_vars

\* One process has called create_tables and then create_indexes on a
\* database that held the four types only: tables with columns of those
\* types and with foreign keys exist, and indexes on them.
C13_Witness ==
    /\ JustEnded("create_indexes")
    /\ startDb = TypesDB
    /\ \E i \in DOMAIN trace :
          /\ i < Len(trace)
          /\ trace[i] = "create_tables"
          /\ trace[i + 1] = "create_indexes"
    /\ {"users", "mentees", "assignments"} \subseteq db.tables
    /\ {"idx_users_role", "idx_assignments_mentee"} \subseteq db.indexes

(***************************************************************************)
(* C14.  verify_setup, called on the seeded database, returns having       *)
(* reported the row count of each of the seven tables it names and the     *)
(* count of every category that has rows in progression_steps (2way, 3way, *)
(* 4way, canopy and safety), and leaves the database as it found it.       *)
(***************************************************************************)
C14_Categories ==
    {entryDb.rows["progression_steps"][i].category :
        i \in DOMAIN entryDb.rows["progression_steps"]}

C14_VerifyReportsReadOnly ==
    /\ JustEnded("verify_setup")
    /\ fault # "OperationalError"
    /\ Range(verify_tables) \subseteq entryDb.tables
    /\ UsersSeeded(entryDb)
    /\ StepsSeeded(entryDb)
    /\ BadgesSeeded(entryDb)
    => /\ fault = "none"
       /\ \A t \in Range(verify_tables) :
             <<t, Len(entryDb.rows[t])>> \in Range(report)
       /\ C14_Categories = {"2way", "3way", "4way", "canopy", "safety"}
       /\ \A c \in C14_Categories :
             <<c, CategoryCount(entryDb, c)>> \in Range(report)
       /\ db = entryDb

==============================================================================
